---- MODULE Spec2Model ----
(***************************************************************************)
(* Model of ceng.load: the load-combination string parser, the operator    *)
(* algebra (_Factored, _GroupOr, _GroupAnd), the Combination object with   *)
(* its coefficient matrix and synthesised call handler, and the decorator  *)
(* wrappers.                                                               *)
(*                                                                         *)
(* A Python string is a sequence of one-character strings.  A Python float *)
(* or int is an exact decimal [n, e, f]: the value n * 10^-e, f = TRUE for *)
(* a float and FALSE for an int (binary rounding is not modelled).         *)
(***************************************************************************)
EXTENDS Integers, Sequences, FiniteSets, TLC

VARIABLES expr, pc, exc, raised_in, _identifiers, matrix, _call_handler,
          wrapper, call, result, body_runs, synthesised,
          operand_self, operand_other, anded,
          arg_arr_seq, concatenated,
          dict_args, root, _dict, lookup

vars == <<expr, pc, exc, raised_in, _identifiers, matrix, _call_handler,
          wrapper, call, result, body_runs, synthesised,
          operand_self, operand_other, anded,
          arg_arr_seq, concatenated,
          dict_args, root, _dict, lookup>>

\* The operands and the outcome of one "&" of the algebra.
algebra_vars == <<operand_self, operand_other, anded>>

\* The argument and the outcome of one call of
\* _row_by_row_concatenation_of_array_seq.
concatenation_vars == <<arg_arr_seq, concatenated>>

\* An IterableDict and the last operation on it.
lookup_vars == <<dict_args, root, _dict, lookup>>

\* ------------------------------------------------------------------ bounds
MaxLen == 3

\* members of a group, groups of a chain
MaxMembers == 2

MaxChain == 2

\* keys are 0..MaxKey; an IterableDict is built from up to MaxPairs pairs
MaxKey == 2

MaxPairs == 2

\* arrays handed to _row_by_row_concatenation_of_array_seq at once
MaxArrays == 3

ArrLen == 2

\* ------------------------------------------------------- characters, str
Digits == {"0", "1", "2", "3", "4", "5", "6", "7", "8", "9"}

Letters == {"A", "D", "E", "F", "H", "I", "L", "M", "N", "O", "R", "S", "T",
            "W", "X", "r"}

Whitespace == {" "}

_valid_operators == {"&", "|", "(", ")"}

LoadCombinationExpressionError == "LoadCombinationExpressionError"

DigitVal(c) ==
  CASE c = "0" -> 0 [] c = "1" -> 1 [] c = "2" -> 2 [] c = "3" -> 3
    [] c = "4" -> 4 [] c = "5" -> 5 [] c = "6" -> 6 [] c = "7" -> 7
    [] c = "8" -> 8 [] c = "9" -> 9

Least(S) == CHOOSE i \in S : \A j \in S : i <= j

Greatest(S) == CHOOSE i \in S : \A j \in S : j <= i

NonBlank(s) == {i \in 1..Len(s) : s[i] \notin Whitespace}

lstrip(s) ==
  IF NonBlank(s) = {} THEN <<>> ELSE SubSeq(s, Least(NonBlank(s)), Len(s))

strip(s) ==
  IF NonBlank(s) = {} THEN <<>>
  ELSE SubSeq(s, Least(NonBlank(s)), Greatest(NonBlank(s)))

\* re.split on a one-character alternation: the pieces between separators,
\* empty pieces included (one piece more than there are separators).
re_split(s, seps) ==
  LET at    == {i \in 1..Len(s) : s[i] \in seps}
      \* separators at or before position i
      count == [i \in 0..Len(s) |-> Cardinality({j \in at : j <= i})]
      \* position of the k-th separator; 0 and Len(s) + 1 close the ends
      nth(k) == IF k = 0 THEN 0
                ELSE IF k > Cardinality(at) THEN Len(s) + 1
                ELSE CHOOSE i \in at : count[i] = k
  IN  [k \in 1..(Cardinality(at) + 1) |->
         SubSeq(s, nth(k - 1) + 1, nth(k) - 1)]

replace(s, old, new) ==
  [i \in 1..Len(s) |-> IF s[i] = old THEN new ELSE s[i]]

isdecimal(s) == s # <<>> /\ \A i \in 1..Len(s) : s[i] \in Digits

isidentifier(s) ==
  /\ s # <<>>
  /\ s[1] \in Letters \cup {"_"}
  /\ \A i \in 1..Len(s) : s[i] \in Letters \cup Digits \cup {"_"}

\* ------------------------------------------------------- exact decimals
RECURSIVE Pow10(_)
Pow10(k) == IF k = 0 THEN 1 ELSE 10 * Pow10(k - 1)

RECURSIVE Norm(_)
Norm(x) ==
  IF x.e > 0 /\ x.n % 10 = 0
  THEN Norm([x EXCEPT !.n = x.n \div 10, !.e = x.e - 1])
  ELSE x

PyInt(v) == [k |-> "num", n |-> v, e |-> 0, f |-> FALSE]

PyFloat(n, e) == Norm([k |-> "num", n |-> n, e |-> e, f |-> TRUE])

Max2(a, b) == IF a >= b THEN a ELSE b

NumMul(a, b) ==
  Norm([k |-> "num", n |-> a.n * b.n, e |-> a.e + b.e, f |-> a.f \/ b.f])

NumAdd(a, b) ==
  LET e == Max2(a.e, b.e)
  IN  Norm([k |-> "num",
            n |-> a.n * Pow10(e - a.e) + b.n * Pow10(e - b.e),
            e |-> e, f |-> a.f \/ b.f])

NumLeq(a, b) ==
  LET e == Max2(a.e, b.e)
  IN  a.n * Pow10(e - a.e) <= b.n * Pow10(e - b.e)

NumMax(a, b) == IF NumLeq(a, b) THEN b ELSE a

RECURSIVE DigitsVal(_)
DigitsVal(s) ==
  IF s = <<>> THEN 0
  ELSE 10 * DigitsVal(SubSeq(s, 1, Len(s) - 1)) + DigitVal(s[Len(s)])

\* Value of a NUMBER token: digits with at most one ".".
NumberLiteral(s) ==
  LET dots == {i \in 1..Len(s) : s[i] = "."}
      ds   == SelectSeq(s, LAMBDA c : c # ".")
  IN  IF dots = {} THEN PyInt(DigitsVal(ds))
      ELSE LET d == CHOOSE i \in dots : TRUE
           IN  PyFloat(DigitsVal(ds), Len(s) - d)

\* ------------------------------------------------ the operator algebra
\* Python objects met while the expression is evaluated: a number, a
\* _Factored, a _GroupOr ("or"), a _GroupAnd ("and"), a plain tuple, or
\* Raised when an exception (TypeError, NameError, ...) left the evaluation.
Raised == [k |-> "err"]

_Factored(load_type, factor) ==
  [k |-> "fac", load_type |-> load_type, factor |-> factor]

_GroupOr(items) == [k |-> "or", items |-> items]

_GroupAnd(items) == [k |-> "and", items |-> items]

PyTuple(items) == [k |-> "tuple", items |-> items]

IsTuple(v) == v.k \in {"or", "and", "tuple"}

\* _Factored.__rmul__(self, other)
Factored__rmul__(self, other) ==
  _Factored(self.load_type, NumMul(self.factor, other))

\* _GroupOr.__rmul__(self, other)
GroupOr__rmul__(self, other) ==
  _GroupOr([i \in 1..Len(self.items) |->
              _Factored(self.items[i].load_type,
                        NumMul(other, self.items[i].factor))])

\* tuple.__mul__ / tuple.__rmul__, inherited by _GroupAnd (and by _GroupOr
\* for __mul__): an int repeats the tuple and gives a plain tuple, a float
\* is a TypeError.
RECURSIVE Repeat(_, _)
Repeat(items, n) == IF n <= 0 THEN <<>> ELSE items \o Repeat(items, n - 1)

tuple__mul__(self, other) ==
  IF other.f THEN Raised ELSE PyTuple(Repeat(self.items, other.n))

\* a * b
Mul(a, b) ==
  CASE a.k = "num" /\ b.k = "num" -> NumMul(a, b)
    [] a.k = "num" /\ b.k = "fac" -> Factored__rmul__(b, a)
    [] a.k = "num" /\ b.k = "or" -> GroupOr__rmul__(b, a)
    [] a.k = "num" /\ b.k \in {"and", "tuple"} -> tuple__mul__(b, a)
    [] IsTuple(a) /\ b.k = "num" -> tuple__mul__(a, b)
    [] OTHER -> Raised

\* _GroupOr.__rand__(self, other)
GroupOr__rand__(self, other) ==
  LET o == IF other.k = "fac" THEN _GroupAnd(<<other>>) ELSE other
  IN  IF o.k \in {"or", "and"} THEN PyTuple(<<o, self>>)
      ELSE IF o.k = "tuple" THEN PyTuple(Append(o.items, self))
      ELSE Raised

\* A Combination object as an operand.
Combination(e) == [k |-> "combination", expr |-> e]

\* Combination.__and__(self, other): for a group, type(self)((*self, other))
\* unpacks self, and a Combination is not iterable (TypeError); for anything
\* else NotImplemented, and no __rand__ of the algebra takes a Combination.
Combination__and__(self, other) ==
  IF other.k \in {"or", "and"} THEN Raised ELSE Raised

\* a & b : type(a).__and__ first; the reflected type(b).__rand__ only when
\* that returned NotImplemented and the two types differ.  _Factored.__rand__
\* and _GroupAnd.__rand__ return NotImplemented, a plain tuple has no
\* __and__, and a number never accepts these operands.
And(a, b) ==
  CASE a.k = "fac" /\ b.k = "fac" -> _GroupAnd(<<a, b>>)
    [] a.k = "and" /\ b.k = "fac" -> _GroupAnd(Append(a.items, b))
    [] a.k \in {"fac", "and", "tuple"} /\ b.k = "or" -> GroupOr__rand__(b, a)
    [] a.k = "combination" -> Combination__and__(a, b)
    [] OTHER -> Raised

\* a | b : _Factored.__or__, _GroupOr.__or__; every __ror__ and
\* _GroupAnd.__or__ return NotImplemented.
Or(a, b) ==
  CASE a.k = "fac" /\ b.k = "fac" -> _GroupOr(<<a, b>>)
    [] a.k = "or" /\ b.k = "fac" -> _GroupOr(Append(a.items, b))
    [] OTHER -> Raised

\* a + b : numbers add, tuples concatenate into a plain tuple.
Add(a, b) ==
  CASE a.k = "num" /\ b.k = "num" -> NumAdd(a, b)
    [] IsTuple(a) /\ IsTuple(b) -> PyTuple(a.items \o b.items)
    [] OTHER -> Raised

\* The reading of an expression the tests compare against
\* (combo_max_func_expected): "&" adds, "|" takes the larger, "*" scales.
MaxAnd(a, b) == IF a.k = "num" /\ b.k = "num" THEN NumAdd(a, b) ELSE Raised

MaxOr(a, b) == IF a.k = "num" /\ b.k = "num" THEN NumMax(a, b) ELSE Raised

MaxMul(a, b) == IF a.k = "num" /\ b.k = "num" THEN NumMul(a, b) ELSE Raised

BinOp(sym, a, b, sem) ==
  IF a.k = "err" \/ b.k = "err" THEN Raised
  ELSE CASE sym = "|" -> (IF sem = "py" THEN Or(a, b) ELSE MaxOr(a, b))
         [] sym = "&" -> (IF sem = "py" THEN And(a, b) ELSE MaxAnd(a, b))
         [] sym = "+" -> (IF sem = "py" THEN Add(a, b) ELSE Raised)
         [] sym = "*" -> (IF sem = "py" THEN Mul(a, b) ELSE MaxMul(a, b))

\* ------------------------------------ the Python tokenizer and grammar
\* The part of Python's expression syntax that strings over the modelled
\* characters can use: names, decimal literals, ( ), calls, attribute
\* references, unary +, **, *, +, & and |.
RECURSIVE RunLen(_, _)
RunLen(s, set) ==
  IF s # <<>> /\ Head(s) \in set THEN 1 + RunLen(Tail(s), set) ELSE 0

Token(kind, text) == [k |-> kind, s |-> text]

\* The tokens of a stretch of text without blanks and without & | ( ) +
RECURSIVE word_tokens(_)
word_tokens(s) ==
  IF s = <<>> THEN <<>>
  ELSE LET c == Head(s)
           from(n) == SubSeq(s, n + 1, Len(s))
       IN
    CASE c \in Letters \cup {"_"} ->
           LET n == RunLen(s, Letters \cup Digits \cup {"_"})
           IN  <<Token("NAME", SubSeq(s, 1, n))>> \o word_tokens(from(n))
      [] c \in Digits \/ (c = "." /\ Len(s) >= 2 /\ s[2] \in Digits) ->
           LET a      == RunLen(s, Digits)
               hasDot == a < Len(s) /\ s[a + 1] = "."
               n      == IF hasDot THEN a + 1 + RunLen(from(a + 1), Digits)
                         ELSE a
               text   == SubSeq(s, 1, n)
               \* "2D": invalid decimal literal; "02": leading zeros in a
               \* decimal integer literal are not permitted
               bad    == \/ n < Len(s) /\ s[n + 1] \in Letters \cup {"_"}
                         \/ ~hasDot /\ a > 1 /\ s[1] = "0"
                                    /\ \E i \in 1..a : s[i] # "0"
           IN  <<Token(IF bad THEN "ERR" ELSE "NUMBER", text)>>
                 \o word_tokens(from(n))
      [] c = "*" /\ Len(s) >= 2 /\ s[2] = "*" ->
           <<Token("OP", "**")>> \o word_tokens(from(2))
      [] c \in {"*", "."} -> <<Token("OP", c)>> \o word_tokens(Tail(s))
      [] OTHER -> <<Token("ERR", <<c>>)>> \o word_tokens(Tail(s))

RECURSIVE concat(_, _, _)
concat(ss, lo, hi) ==
  IF lo > hi THEN <<>>
  ELSE IF lo = hi THEN ss[lo]
  ELSE concat(ss, lo, (lo + hi) \div 2) \o concat(ss, (lo + hi) \div 2 + 1, hi)

\* A blank ends a token and is dropped; each of & | ( ) + is a token by
\* itself; the text between them is tokenized stretch by stretch.
Delimiters == Whitespace \cup {"&", "|", "(", ")", "+"}

tokenize(s) ==
  LET words == re_split(s, Delimiters)
      at    == {i \in 1..Len(s) : s[i] \in Delimiters}
      count == [i \in 1..Len(s) |-> Cardinality({j \in at : j <= i})]
      \* the delimiter that ends the k-th stretch, as a token sequence
      delim(k) ==
        IF k > Cardinality(at) THEN <<>>
        ELSE LET c == s[CHOOSE i \in at : count[i] = k]
             IN  IF c \in Whitespace THEN <<>> ELSE <<Token("OP", c)>>
      parts == [k \in 1..Len(words) |-> word_tokens(words[k]) \o delim(k)]
  IN  concat(parts, 1, Len(parts))

IsOp(t, i, sym) == i <= Len(t) /\ t[i].k = "OP" /\ t[i].s = sym

IsKind(t, i, kind) == i <= Len(t) /\ t[i].k = kind

\* A parse result: syn = the tokens from the start position form the
\* construct, v = its value (Raised when evaluating it raises), i = the
\* position after it.
Parsed(v, i) == [syn |-> TRUE, v |-> v, i |-> i]

SyntaxError == [syn |-> FALSE, v |-> Raised, i |-> 0]

\* Name lookup in the namespace handed to eval.
Lookup(ns, name) == IF name \in DOMAIN ns THEN ns[name] ELSE Raised

\* Binary operators and how tightly they bind: | < & < + < *, all
\* left-associative.
BinaryOps == {"|", "&", "+", "*"}

Prec(sym) == CASE sym = "|" -> 1 [] sym = "&" -> 2 [] sym = "+" -> 3
               [] sym = "*" -> 4

IsBinaryOp(t, i, minp) ==
  i <= Len(t) /\ t[i].k = "OP" /\ t[i].s \in BinaryOps /\ Prec(t[i].s) >= minp

RECURSIVE binary(_, _, _, _, _)
RECURSIVE binary_loop(_, _, _, _, _)
RECURSIVE factor(_, _, _, _)
RECURSIVE trailers(_, _, _, _)
RECURSIVE atom(_, _, _, _)

\* An expression whose binary operators all bind at least as tightly as
\* minp: minp = 1 is bitwise_or, 2 bitwise_and, 3 sum, 4 term.
binary(t, i, minp, ns, sem) ==
  binary_loop(t, factor(t, i, ns, sem), minp, ns, sem)

binary_loop(t, left, minp, ns, sem) ==
  IF left.syn /\ IsBinaryOp(t, left.i, minp)
  THEN LET sym   == t[left.i].s
           right == binary(t, left.i + 1, Prec(sym) + 1, ns, sem)
       IN  IF right.syn
           THEN binary_loop(t, Parsed(BinOp(sym, left.v, right.v, sem),
                                      right.i), minp, ns, sem)
           ELSE SyntaxError
  ELSE left

\* factor: '+' factor | primary ['**' factor].  Unary plus keeps a number
\* and is a TypeError on everything else.  No string with "**" is ever
\* evaluated (_get_identifiers rejects the fragment first), so only its
\* syntax counts.
factor(t, i, ns, sem) ==
  IF IsOp(t, i, "+")
  THEN LET q == factor(t, i + 1, ns, sem)
       IN  IF q.syn
           THEN Parsed(IF q.v.k = "num" THEN q.v ELSE Raised, q.i)
           ELSE SyntaxError
  ELSE LET r == trailers(t, atom(t, i, ns, sem), ns, sem)
       IN  IF r.syn /\ IsOp(t, r.i, "**")
           THEN LET q == factor(t, r.i + 1, ns, sem)
                IN  IF q.syn THEN Parsed(Raised, q.i) ELSE SyntaxError
           ELSE r

\* primary: atom followed by calls "(...)" and attribute references ".NAME".
\* Calling any object of the algebra is a TypeError; no string with an
\* attribute reference is ever evaluated.
trailers(t, r, ns, sem) ==
  IF ~r.syn THEN r
  ELSE IF IsOp(t, r.i, "(")
  THEN IF IsOp(t, r.i + 1, ")")
       THEN trailers(t, Parsed(Raised, r.i + 2), ns, sem)
       ELSE LET a == binary(t, r.i + 1, 1, ns, sem)
            IN  IF a.syn /\ IsOp(t, a.i, ")")
                THEN trailers(t, Parsed(Raised, a.i + 1), ns, sem)
                ELSE SyntaxError
  ELSE IF IsOp(t, r.i, ".") /\ IsKind(t, r.i + 1, "NAME")
  THEN trailers(t, Parsed(Raised, r.i + 2), ns, sem)
  ELSE r

\* atom: NAME | NUMBER | '(' ')' | '(' expression ')'
atom(t, i, ns, sem) ==
  IF IsKind(t, i, "NAME") THEN Parsed(Lookup(ns, t[i].s), i + 1)
  ELSE IF IsKind(t, i, "NUMBER") THEN Parsed(NumberLiteral(t[i].s), i + 1)
  ELSE IF IsOp(t, i, "(")
  THEN IF IsOp(t, i + 1, ")") THEN Parsed(PyTuple(<<>>), i + 2)
       ELSE LET r == binary(t, i + 1, 1, ns, sem)
            IN  IF r.syn /\ IsOp(t, r.i, ")") THEN Parsed(r.v, r.i + 1)
                ELSE SyntaxError
  ELSE SyntaxError

\* The whole token sequence as one expression.
expression(t, ns, sem) ==
  LET r == binary(t, 1, 1, ns, sem)
  IN  IF t # <<>> /\ r.syn /\ r.i = Len(t) + 1 THEN r ELSE SyntaxError

\* ast.parse left out: nothing checks the string as a whole.
ast_parse_accepts_all(s) == TRUE

\* ast.parse(expr) does not raise.  The string is parsed as a module: blank
\* source is an empty module, leading whitespace is an IndentationError,
\* anything else must be one expression statement.
ast_parse(s) ==
  \/ strip(s) = <<>>
  \/ /\ Head(s) \notin Whitespace
     /\ expression(tokenize(s), <<>>, "py").syn

\* eval(expr, ns): leading blanks are skipped, the rest must be one
\* expression; Raised covers SyntaxError and every exception of evaluation.
eval(s, ns) ==
  LET r == expression(tokenize(lstrip(s)), ns, "py")
  IN  IF r.syn THEN r.v ELSE Raised

\* --------------------------------------------------- _get_identifiers
\* The outcome of a Python call: the value returned, or the exception type
\* that left it.
Return(v) == [exc |-> "none", val |-> v]

Raise(e) == [exc |-> e, val |-> <<>>]

StripAll(pieces) == [i \in 1..Len(pieces) |-> strip(pieces[i])]

\* [s.strip() for s in _load_combination_re.split(expr) if s.strip()]
expr_lst(e) ==
  SelectSeq(StripAll(re_split(e, _valid_operators)), LAMBDA s : s # <<>>)

\* *lhs, rhs = (s.strip() for s in _multiply_re.split(sub_expr))
multiply_parts(sub_expr) == StripAll(re_split(sub_expr, {"*"}))

lhs(sub_expr) ==
  LET ps == multiply_parts(sub_expr) IN SubSeq(ps, 1, Len(ps) - 1)

rhs(sub_expr) ==
  LET ps == multiply_parts(sub_expr) IN ps[Len(ps)]

\* Neither raise of the loop body is reached for this fragment.
sub_expr_ok(sub_expr) ==
  /\ \A i \in 1..Len(lhs(sub_expr)) :
        isdecimal(replace(lhs(sub_expr)[i], ".", "1"))
  /\ rhs(sub_expr) # <<>> => isidentifier(rhs(sub_expr))

\* identifiers.append(maybe_identifier) for every fragment with a
\* non-empty right-hand side, in the order of the fragments.
appended(e) ==
  SelectSeq([i \in 1..Len(expr_lst(e)) |-> rhs(expr_lst(e)[i])],
            LAMBDA s : s # <<>>)

_get_identifiers(e) ==
  IF \E i \in 1..Len(expr_lst(e)) : ~sub_expr_ok(expr_lst(e)[i])
  THEN Raise(LoadCombinationExpressionError)
  ELSE IF ~ast_parse(e) THEN Raise(LoadCombinationExpressionError)
  ELSE Return(appended(e))

\* ------------------------------------------------------------ the matrix
Zero == PyFloat(0, 0)

One == PyFloat(1, 0)

factor_arr(group) == [i \in 1..Len(group.items) |-> group.items[i].factor]

np_diag(v) ==
  [i \in 1..Len(v) |-> [j \in 1..Len(v) |-> IF i = j THEN v[i] ELSE Zero]]

\* _Group.matrix; only a _GroupOr or a _GroupAnd has the property.
Group_matrix(group) ==
  IF group.k = "or" THEN np_diag(factor_arr(group))
  ELSE <<factor_arr(group)>>

RECURSIVE prod(_)
prod(ns) == IF ns = <<>> THEN 1 ELSE Head(ns) * prod(Tail(ns))

\* The whole array over and over in the place of row after row.
np_repeat_cycles_rows(arr, repeats) ==
  [i \in 1..(Len(arr) * repeats) |-> arr[((i - 1) % Len(arr)) + 1]]

\* np.repeat(arr, repeats, axis=0): every row repeats times in a row
np_repeat(arr, repeats) ==
  [i \in 1..(Len(arr) * repeats) |-> arr[((i - 1) \div repeats) + 1]]

\* np.tile(arr, (reps, 1)): the whole block reps times
np_tile(arr, reps) ==
  [i \in 1..(Len(arr) * reps) |-> arr[((i - 1) % Len(arr)) + 1]]

RECURSIVE hstack_row(_, _)
hstack_row(blocks, s) ==
  IF blocks = <<>> THEN <<>>
  ELSE Head(blocks)[s] \o hstack_row(Tail(blocks), s)

\* np.hstack of blocks that all have the same number of rows
np_hstack(blocks) ==
  [s \in 1..Len(blocks[1]) |-> hstack_row(blocks, s)]

seq_rows(arr_seq) == [i \in 1..Len(arr_seq) |-> Len(arr_seq[i])]

\* seq_rows[:i + 1].prod() in the place of seq_rows[i:].prod()
products_of_leading_rows(arr_seq) ==
  [i \in 1..Len(arr_seq) |-> prod(SubSeq(seq_rows(arr_seq), 1, i))]

products(arr_seq) ==
  [i \in 1..Len(arr_seq) |->
     prod(SubSeq(seq_rows(arr_seq), i, Len(arr_seq)))]

\* np.hstack of an empty list raises ValueError.
_row_by_row_concatenation_of_array_seq(arr_seq) ==
  IF arr_seq = <<>> THEN Raise("ValueError")
  ELSE LET rows == prod(seq_rows(arr_seq))
       IN  Return(np_hstack(
             [i \in 1..Len(arr_seq) |->
                np_tile(np_repeat(arr_seq[i],
                                  products(arr_seq)[i] \div Len(arr_seq[i])),
                        rows \div products(arr_seq)[i])]))

\* ns = {k: _Factored(k) for k in self._identifiers}
namespace(identifiers) ==
  [name \in {identifiers[i] : i \in 1..Len(identifiers)} |->
     _Factored(name, One)]

\* The isinstance chain of _init_matrix on the evaluated expression;
\* _GroupOr is a tuple too.  A number falls to the final else.
group_tup(expr_eval) ==
  IF expr_eval.k = "fac" THEN Return(<<_GroupAnd(<<expr_eval>>)>>)
  ELSE IF expr_eval.k = "and" THEN Return(<<expr_eval>>)
  ELSE IF IsTuple(expr_eval) THEN Return(expr_eval.items)
  ELSE Raise(LoadCombinationExpressionError)

\* arr_seq = [group.matrix for group in group_tup] and the concatenation;
\* .matrix of a _Factored or of a plain tuple is an AttributeError.
matrix_of_groups(gt) ==
  IF gt.exc # "none" THEN gt
  ELSE IF \E i \in 1..Len(gt.val) : gt.val[i].k \notin {"or", "and"}
  THEN Raise("AttributeError")
  ELSE _row_by_row_concatenation_of_array_seq(
         [i \in 1..Len(gt.val) |-> Group_matrix(gt.val[i])])

\* The part of _init_matrix after eval returned or raised.
matrix_of_eval(expr_eval) ==
  IF expr_eval.k = "err" THEN Raise(LoadCombinationExpressionError)
  ELSE matrix_of_groups(group_tup(expr_eval))

_init_matrix(e, identifiers) ==
  matrix_of_eval(eval(e, namespace(identifiers)))

\* ------------------------------------------------------ the call handler
\* An argument of a call: a scalar (shape <<>>), a 1-D array, or an object
\* that is not a number (an instance or a class).
Scalar(x) == [kind |-> "num", shape |-> <<>>, data |-> <<x>>]

Array(xs) == [kind |-> "num", shape |-> <<Len(xs)>>, data |-> xs]

Object == [kind |-> "obj", shape |-> <<>>, data |-> <<>>]

NoKwargs == [name \in {} |-> Scalar(One)]

Names(params) == {params[i] : i \in 1..Len(params)}

Index(params, name) == CHOOSE i \in 1..Len(params) : params[i] = name

Min2(a, b) == IF a <= b THEN a ELSE b

\* zip(factors, self._identifiers): stops at the shorter of the two
zip(factors, identifiers) ==
  [n \in 1..Min2(Len(factors), Len(identifiers)) |->
     [f |-> factors[n], i |-> identifiers[n]]]

\* The factors paired with the identifiers in the opposite order.
row_func_reversed(factors, identifiers) ==
  [params |-> identifiers,
   terms  |-> zip(factors,
                  [n \in 1..Len(identifiers) |->
                     identifiers[Len(identifiers) + 1 - n]])]

\* One generated row function "def njited(<identifiers>): return
\* vectorized(<identifiers>)" with body "return f1*i1 + f2*i2 + ...".
row_func(factors, identifiers) ==
  [params |-> identifiers, terms |-> zip(factors, identifiers)]

\* Python's binding of a call's arguments to the parameters of a function
\* without defaults.
bind(params, args, kwargs) ==
  IF \/ Len(args) > Len(params)
     \/ ~(DOMAIN kwargs \subseteq Names(params))
     \/ \E i \in 1..Len(args) : params[i] \in DOMAIN kwargs
     \/ \E i \in (Len(args) + 1)..Len(params) : params[i] \notin DOMAIN kwargs
  THEN Raise("TypeError")
  ELSE Return([name \in Names(params) |->
                 IF Index(params, name) <= Len(args)
                 THEN args[Index(params, name)] ELSE kwargs[name]])

\* numpy broadcasting of scalars and 1-D arrays
array_lens(env) == {env[n].shape[1] : n \in {m \in DOMAIN env : env[m].shape # <<>>}}

broadcastable(env) == Cardinality(array_lens(env) \ {1}) <= 1

broadcast_shape(env) ==
  IF array_lens(env) = {} THEN <<>>
  ELSE IF array_lens(env) \ {1} = {} THEN <<1>>
  ELSE <<CHOOSE n \in array_lens(env) \ {1} : TRUE>>

elem(v, k) == IF Len(v.data) = 1 THEN v.data[1] ELSE v.data[k]

RECURSIVE linear_form(_, _, _)
linear_form(terms, env, k) ==
  IF terms = <<>> THEN Zero
  ELSE IF Len(terms) = 1
  THEN NumMul(terms[1].f, elem(env[terms[1].i], k))
  ELSE NumAdd(linear_form(SubSeq(terms, 1, Len(terms) - 1), env, k),
              NumMul(terms[Len(terms)].f, elem(env[terms[Len(terms)].i], k)))

\* f(*args, **kwargs) for one row function: bind, type, broadcast, compute.
call_row_func(f, args, kwargs) ==
  LET b == bind(f.params, args, kwargs)
  IN  IF b.exc # "none" THEN b
      ELSE IF \E n \in DOMAIN b.val : b.val[n].kind # "num"
      THEN Raise("TypingError")
      ELSE IF ~broadcastable(b.val) THEN Raise("ValueError")
      ELSE LET shape == broadcast_shape(b.val)
               size  == IF shape = <<>> THEN 1 ELSE shape[1]
           IN  Return([shape |-> shape,
                       data  |-> [k \in 1..size |->
                                    linear_form(f.terms, b.val, k)]])

\* np.array(list of row results): scalars stack into shape (M,), arrays of
\* length K into shape (M, K).
np_array(rs) ==
  IF rs[1].shape = <<>>
  THEN [shape |-> <<Len(rs)>>, data |-> [s \in 1..Len(rs) |-> rs[s].data[1]]]
  ELSE [shape |-> <<Len(rs), rs[1].shape[1]>>,
        data  |-> [s \in 1..Len(rs) |-> rs[s].data]]

\* The transposition left out.
T_left_out(a) == a

\* ndarray.T: nothing for one axis, rows and columns swap for two.
T(a) ==
  IF Len(a.shape) = 1 THEN a
  ELSE [shape |-> <<a.shape[2], a.shape[1]>>,
        data  |-> [k \in 1..a.shape[2] |->
                     [s \in 1..a.shape[1] |-> a.data[s][k]]]]

\* The closure _call_handler(*args, **kwargs) over row_funcs.
call_handler(row_funcs, args, kwargs) ==
  LET rs == [s \in 1..Len(row_funcs) |->
               call_row_func(row_funcs[s], args, kwargs)]
  IN  IF \E s \in 1..Len(rs) : rs[s].exc # "none"
      THEN rs[CHOOSE s \in 1..Len(rs) :
                /\ rs[s].exc # "none"
                /\ \A r \in 1..(s - 1) : rs[r].exc = "none"]
      ELSE Return(T(np_array([s \in 1..Len(rs) |-> rs[s].val])))

has_duplicates(identifiers) ==
  \E i, j \in 1..Len(identifiers) : i < j /\ identifiers[i] = identifiers[j]

\* Combination._init_call_handler: exec of the generated source is a
\* SyntaxError (duplicate argument) when an identifier repeats; the handler
\* is primed with 1.0 for every identifier before it is stored.
_init_call_handler(m, identifiers) ==
  LET row_funcs == [s \in 1..Len(m) |-> row_func(m[s], identifiers)]
      primed    == call_handler(row_funcs,
                                [n \in 1..Len(identifiers) |-> Scalar(One)],
                                NoKwargs)
  IN  IF Len(m) > 0 /\ has_duplicates(identifiers) THEN Raise("SyntaxError")
      ELSE IF primed.exc # "none" THEN primed
      ELSE Return(row_funcs)

\* -------------------------------------------------------------- wrappers
Binders == {"function", "method", "classmethod", "staticmethod"}

\* What wrapt hands to combine_the_loads_wrapper as args for a call written
\* with positional arguments a: a method reached through the class takes
\* its first argument as the instance; in every other case the instance or
\* class has already been bound and a is passed on whole.
wrapt_args(binder, via, a) ==
  IF binder = "method" /\ via = "class"
  THEN IF a = <<>> THEN Raise("TypeError") ELSE Return(Tail(a))
  ELSE Return(a)

\* return wrapped(*args, **kwargs): the body of the decorated function runs
\* and its None comes back.
combine_the_loads_wrapper_calls_wrapped(handler, binder, via, a, kwargs) ==
  [exc |-> "none", val |-> <<>>, wrapped_called |-> TRUE]

\* combine_the_loads_wrapper(wrapped, instance, args, kwargs):
\* return self(*args, **kwargs); wrapped is not called.
combine_the_loads_wrapper(handler, binder, via, a, kwargs) ==
  LET w == wrapt_args(binder, via, a)
      r == IF w.exc # "none" THEN w ELSE call_handler(handler, w.val, kwargs)
  IN  [exc |-> r.exc, val |-> r.val, wrapped_called |-> FALSE]

\* ---------------------------------------------------- expression strings
\* tests/test_load.py
good_combo_strs ==
  <<<<"(", "1", ".", "4", " ", "*", " ", "D", ")">>,
    <<"(", "1", ".", "2", " ", "*", " ", "D", " ", "&", " ", "1", ".", "6",
      " ", "*", " ", "L", " ", "&", " ", "0", ".", "5", " ", "*", " ", "(",
      "L", "r", " ", "|", " ", "S", " ", "|", " ", "R", ")", ")">>,
    <<"(", "1", ".", "2", " ", "*", " ", "D", " ", "&", " ", "1", ".", "6",
      " ", "*", " ", "(", "S", " ", "|", " ", "L", "r", " ", "|", " ", "R",
      ")", " ", "&", " ", "(", "1", ".", "0", " ", "*", " ", "L", " ", "|",
      " ", "0", ".", "5", " ", "*", " ", "W", ")", ")">>,
    <<"(", "1", ".", "2", " ", "*", " ", "D", " ", "&", " ", "W", " ", "&",
      " ", "L", " ", "&", " ", "0", ".", "5", " ", "*", " ", "(", "L", "r",
      " ", "|", " ", "S", " ", "|", " ", "R", ")", ")">>,
    <<"(", "0", ".", "9", " ", "*", " ", "D", " ", "&", " ", "W", ")">>,
    <<"(", "D", ")">>,
    <<"(", "D", " ", "&", " ", "L", ")">>,
    <<"(", "D", " ", "&", " ", "(", "S", " ", "|", " ", "L", "r", " ", "|",
      " ", "R", ")", ")">>,
    <<"(", "D", " ", "&", " ", "0", ".", "7", "5", " ", "*", " ", "L", " ",
      "&", " ", "0", ".", "7", "5", " ", "*", " ", "(", "L", "r", " ", "|",
      " ", "S", " ", "|", " ", "R", ")", ")">>,
    <<"(", "D", " ", "&", " ", "0", ".", "6", " ", "*", " ", "W", ")">>,
    <<"(", "D", " ", "&", " ", "0", ".", "7", "5", " ", "*", " ", "L", " ",
      "&", " ", "0", ".", "7", "5", " ", "*", " ", "0", ".", "6", " ", "*",
      " ", "W", " ", "&", " ", "0", ".", "7", "5", " ", "*", " ", "(", "L",
      "r", " ", "|", " ", "S", " ", "|", " ", "R", ")", ")">>,
    <<"(", "0", ".", "6", " ", "*", " ", "D", " ", "&", " ", "0", ".", "6",
      " ", "*", " ", "W", ")">>>>

\* tests/test_load.py
ok_combo_strs ==
  <<<<"1", ".", "2", "*", "D", " ", "&", " ", "1", ".", "6", "*", "(", "L",
      "r", " ", "|", " ", "S", " ", "|", " ", "R", ")", " ", "&", " ", "(",
      "L", " ", "|", " ", "0", ".", "5", "*", "W", ")", " ", "&", " ", "1",
      ".", "1", "*", "1", ".", "3", "*", "1", ".", "4", "*", "X">>,
    <<"1", ".", "2", "*", "D", " ", "&", " ", "1", ".", "6", "*", "(", "L",
      "r", " ", "|", " ", "S", " ", "|", " ", "R", ")", " ", "&", " ", "0",
      ".", "5", "*", "(", "L", " ", "|", " ", "0", ".", "5", "*", "W", ")",
      " ", "&", " ", "1", ".", "1", "*", "1", ".", "3", "*", "1", ".", "4",
      "*", "X">>>>

\* tests/test_load.py
bad_combo_strs ==
  <<<<"1", ".", "2", "*", "D", " ", "+", " ", "1", ".", "6", "*", "(", "L",
      "r", " ", "|", " ", "S", " ", "|", " ", "R", ")", " ", "+", " ", "(",
      "L", " ", "|", " ", "0", ".", "5", "*", "W", ")">>,
    <<"1", ".", "2", " ", "*", " ", "D", " ", "&", " ", "1", ".", "6", " ",
      "*", " ", "X", " ", "*", " ", "(", "S", " ", "|", " ", "L", "r", " ",
      "|", " ", "R", ")", " ", "&", " ", "(", "1", ".", "0", " ", "*", " ",
      "L", " ", "|", " ", "0", ".", "5", " ", "*", " ", "W", ")">>,
    <<"1", ".", "2", " ", "*", " ", "D", " ", "&", " ", "X", " ", "*", " ",
      "(", "S", " ", "|", " ", "L", "r", " ", "|", " ", "R", ")", " ", "&",
      " ", "(", "1", ".", "0", " ", "*", " ", "L", " ", "|", " ", "0", ".",
      "5", " ", "*", " ", "W", ")">>,
    <<"1", ".", "2", "*", "D", " ", "&", " ", "1", ".", "6", "*", "(", "L",
      "r", " ", "|", " ", "S", " ", "|", " ", "R", ")", " ", "&", " ", "(",
      "L", " ", "|", " ", "0", ".", "5", "*", "W">>,
    <<"1", ".", "2", "*", "D", " ", "&", " ", "1", ".", "6", "*", "(", "L",
      "r", " ", "|", " ", "S", " ", "|", " ", "R", ")", " ", "&", " ", "L",
      " ", "|", " ", "0", ".", "5", "*", "W", ")">>,
    <<"1", ".", "2", "*", "D", " ", "&", " ", "1", ".", "6", "*", "(", "L",
      "r", " ", "|", " ", "S", " ", "|", " ", "R", " ", "&", " ", "(", "L",
      " ", "|", " ", "0", ".", "5", "*", "W", ")">>,
    <<"1", ".", "2", "*", "D", " ", "&", " ", "1", ".", "6", "*", "L", "r",
      " ", "|", " ", "S", " ", "|", " ", "R", ")", " ", "&", " ", "(", "L",
      " ", "|", " ", "0", ".", "5", "*", "W", ")">>,
    <<"1", ".", "2", "*", "D", " ", "&", " ", "1", ".", "6", "*", "(", "L",
      "r", " ", "|", " ", "S", " ", "|", " ", "R", ")", " ", "&", " ", "1",
      ".", "1", "*", "(", "I", "(", "A", "M", "(", "A", "(", "L", "E", "A",
      "F", "(", "O", "N", "(", "T", "H", "E", "(", "W", "I", "N", "D", ")",
      " ", "&", " ", "1", ".", "4", "*", "X", " ", "&", " ", "(", "L", " ",
      "|", " ", "0", ".", "5", "*", "W", ")">>,
    <<"1", ".", "2", "*", "D", " ", "&", " ", "1", ".", "6", "*", "(", "L",
      "r", " ", "|", " ", "S", " ", "|", " ", "R", ")", " ", "&", " ", "(",
      "L", " ", "|", " ", "0", ".", "5", "*", "W", ")", " ", "&", " ", "1",
      ".", "4", "*", "X">>,
    <<"1", ".", "2", "*", "D", " ", "&", " ", "1", ".", "6", "*", "(", "L",
      "r", " ", "|", " ", "S", " ", "|", " ", "R", ")", " ", "&", " ", "1",
      ".", "1", "*", "(", "1", ".", "3", ")", "*", "1", ".", "4", "*", "X",
      " ", "&", " ", "(", "L", " ", "|", " ", "0", ".", "5", "*", "W", ")",
      " ">>>>

\* the module docstring and the decorator docstrings
docstring_strs ==
  <<<<"1", ".", "6", "*", "D", " ", "&", " ", "1", ".", "2", "*", "L", " ",
      "&", " ", "0", ".", "5", "*", "(", "S", " ", "|", " ", "L", "r", " ",
      "|", " ", "W", ")">>>>

\* tests/test_load.py, the decorated methods
method_strs ==
  <<<<"1", ".", "4", "*", "D", " ", "&", " ", "1", ".", "2", "*", "L">>>>

\* further strings: operator pairs of the algebra, literals, malformed text
more_strs ==
  <<<<"D", "|", "L">>,
    <<"2", "*", "(", "D", "&", "L", ")">>,
    <<"0", "*", "(", "D", "&", "L", ")">>,
    <<"2", "*", "(", "D", "&", "(", "S", "|", "R", ")", ")">>,
    <<"0", "*", "(", "D", "&", "L", ")", "&", "(", "S", "|", "R", ")">>,
    <<"2", ".", "0", "*", "(", "D", "&", "L", ")">>,
    <<"D", "&", "(", "D", "|", "L", ")">>,
    <<"(", "S", "|", "R", ")", "&", "(", "D", "&", "L", ")">>,
    <<"(", "S", "|", "R", ")", "&", "(", "L", "|", "W", ")">>,
    <<"D", "&", "(", "S", "|", "R", ")", "&", "L">>,
    <<"D", "&", "(", "S", "|", "R", ")", "&", "(", "L", "|", "W", ")">>,
    <<"D", "(", "L", ")">>,
    <<"2", "*", "3", "*", "D">>,
    <<"D", "&", "L", "|", "S">>,
    <<"L", "|", "(", "S", "|", "R", ")">>,
    <<"1", ".", "2", ".", "3", "*", "D">>,
    <<"0", "2", "*", "D">>,
    <<"2", "D", "*", "L">>,
    <<"D", ".", "L">>,
    <<"D", "*", "*", "L">>,
    <<"D", " ", "&", " ">>,
    <<"D", "+", "(", "S", "|", "R", ")">>>>

Range(q) == {q[i] : i \in 1..Len(q)}

\* Every string of at most MaxLen of these characters is tried as well.
Chars == {"D", "L", "2", ".", "*", "&", "|", "(", ")", "+", " "}

RECURSIVE StringsUpTo(_)
StringsUpTo(n) ==
  IF n = 0 THEN {<<>>}
  ELSE LET shorter == StringsUpTo(n - 1)
       IN  shorter \cup {Append(q, c) : q \in shorter, c \in Chars}

Exprs ==
  StringsUpTo(MaxLen) \cup Range(good_combo_strs) \cup Range(ok_combo_strs)
    \cup Range(bad_combo_strs) \cup Range(docstring_strs)
    \cup Range(method_strs) \cup Range(more_strs)

\* ------------------------------------------------------ call arguments
ExtraParam == <<"first_param">>

ones(n) == [i \in 1..n |-> Scalar(PyInt(1))]

\* 1, 2, 3, ...
ramp(n) == [i \in 1..n |-> Scalar(PyInt(i))]

\* -n, ..., -2, -1
negative_ramp(n) == [i \in 1..n |-> Scalar(PyInt(i - n - 1))]

\* signs alternate, either way round
mixed_signs(n) ==
  [i \in 1..n |-> Scalar(PyInt(IF i % 2 = 0 THEN i ELSE 0 - i))]

signs_mixed(n) ==
  [i \in 1..n |-> Scalar(PyInt(IF i % 2 = 1 THEN i ELSE 0 - i))]

\* every value a 1-D array of length ArrLen
arrays(n) ==
  [i \in 1..n |-> Array([k \in 1..ArrLen |-> PyInt(i * k - 2)])]

\* one array among scalars
array_and_scalars(n) ==
  [i \in 1..n |-> IF i = 1 THEN arrays(n)[1] ELSE Scalar(PyInt(i))]

ValueVecs(n) ==
  {ones(n), ramp(n), negative_ramp(n), mixed_signs(n), signs_mixed(n),
   arrays(n), array_and_scalars(n)}

\* The first a values positionally, the others by the name of the
\* identifier at their position.
by_position_and_name(v, a, names) ==
  [args   |-> SubSeq(v, 1, a),
   kwargs |-> [name \in {names[i] : i \in (a + 1)..Len(names)} |->
                 v[Index(names, name)]]]

\* Ways to write the arguments of a call for the given identifiers: one
\* value each (all by position, all by name, the first by position), one
\* value missing, one value too many (by position, or by the name
\* ExtraParam).
CallSites(identifiers) ==
  LET n == Len(identifiers)
  IN  {by_position_and_name(v, a, identifiers) :
         v \in ValueVecs(n), a \in {0, 1, n} \cap 0..n}
      \cup {by_position_and_name(v, n - 1, SubSeq(identifiers, 1, n - 1)) :
         v \in IF n > 0 THEN ValueVecs(n) ELSE {}}
      \cup {by_position_and_name(v, a, Append(identifiers, ExtraParam)) :
         v \in ValueVecs(n + 1), a \in {0, n, n + 1}}

ExtraParam_first(identifiers) == <<ExtraParam>> \o identifiers

Reverse(q) == [i \in 1..Len(q) |-> q[Len(q) + 1 - i]]

\* Parameter lists the wrapped function may declare (after an implicit
\* self or cls): the identifiers in their order, in reverse, or behind a
\* parameter that is no identifier.
DeclaredParams(identifiers) ==
  {identifiers, Reverse(identifiers), ExtraParam_first(identifiers)}

\* ---------------------------------------------------------- the program
\* Nothing but a Combination is in use.
NoObject == [k |-> "none"]

NoAlgebra ==
  operand_self = NoObject /\ operand_other = NoObject /\ anded = NoObject

NoOutcome == [exc |-> "idle", val |-> <<>>]

NoConcatenation == arg_arr_seq = <<>> /\ concatenated = NoOutcome

PyNone == "None"

NoLookup ==
  [op |-> "none", key |-> 0, default |-> PyNone, outcome |-> NoOutcome]

NoIterableDict ==
  dict_args = <<>> /\ root = <<>> /\ _dict = <<>> /\ lookup = NoLookup

outside_Combination == <<algebra_vars, concatenation_vars, lookup_vars>>

NoWrapper == [binder |-> "none", params |-> <<>>]

NoCall ==
  [target |-> "none", binder |-> "none", params |-> <<>>, via |-> "none",
   args |-> <<>>, kwargs |-> NoKwargs]

NoResult == [exc |-> "none", val |-> <<>>]

\* The fields before __post_init__ has set them.
unset ==
  [exc |-> "none", raised_in |-> "none", _identifiers |-> <<>>,
   matrix |-> <<>>, _call_handler |-> <<>>]

\* Combination.__post_init__: the three steps in order; an exception stops
\* it and leaves the fields of the later steps unset.  h is what
\* self._init_call_handler() did.
post_init_call_handler(identifiers, m, h) ==
  IF h.exc # "none"
  THEN [unset EXCEPT !.exc = h.exc, !.raised_in = "_init_call_handler",
                     !._identifiers = identifiers, !.matrix = m]
  ELSE [unset EXCEPT !._identifiers = identifiers, !.matrix = m,
                     !._call_handler = h.val]

\* m is what self._init_matrix() did.
post_init_matrix(identifiers, m) ==
  IF m.exc # "none"
  THEN [unset EXCEPT !.exc = m.exc, !.raised_in = "_init_matrix",
                     !._identifiers = identifiers]
  ELSE post_init_call_handler(identifiers, m.val,
                              _init_call_handler(m.val, identifiers))

\* ids is what _get_identifiers(self.expr) did.
post_init_identifiers(e, ids) ==
  IF ids.exc # "none"
  THEN [unset EXCEPT !.exc = ids.exc, !.raised_in = "_get_identifiers"]
  ELSE post_init_matrix(ids.val, _init_matrix(e, ids.val))

post_init(e) == post_init_identifiers(e, _get_identifiers(e))

\* How many times _init_matrix and _init_call_handler have run.
NotSynthesised == [_init_matrix |-> 0, _init_call_handler |-> 0]

\* __post_init__ runs each of them once, as far as it gets.
runs_of_post_init(raised_where) ==
  [_init_matrix |-> IF raised_where = "_get_identifiers" THEN 0 ELSE 1,
   _init_call_handler |->
     IF raised_where \in {"_get_identifiers", "_init_matrix"} THEN 0 ELSE 1]

Init ==
  /\ expr \in Exprs
  /\ pc = "start"
  /\ exc = "none"
  /\ raised_in = "none"
  /\ _identifiers = <<>>
  /\ matrix = <<>>
  /\ _call_handler = <<>>
  /\ wrapper = NoWrapper
  /\ call = NoCall
  /\ result = NoResult
  /\ body_runs = 0
  /\ synthesised = NotSynthesised
  /\ NoAlgebra
  /\ NoConcatenation
  /\ NoIterableDict

\* Combination(expr)
PostInit ==
  /\ pc = "start"
  /\ LET r == post_init(expr)
     IN  /\ pc' = IF r.exc = "none" THEN "constructed" ELSE "raised"
         /\ exc' = r.exc
         /\ raised_in' = r.raised_in
         /\ _identifiers' = r._identifiers
         /\ matrix' = r.matrix
         /\ _call_handler' = r._call_handler
         /\ synthesised' = runs_of_post_init(r.raised_in)
  /\ UNCHANGED <<expr, wrapper, call, result, body_runs, outside_Combination>>

fields ==
  <<expr, pc, exc, raised_in, _identifiers, matrix, _call_handler,
    synthesised>>

\* Combination.function / .method / .classmethod / .staticmethod applied to
\* a function that declares params.
Decorate ==
  /\ pc = "constructed"
  /\ call = NoCall
  /\ \E binder \in Binders, params \in DeclaredParams(_identifiers) :
       wrapper' = [binder |-> binder, params |-> params]
  /\ UNCHANGED <<fields, call, result, body_runs, outside_Combination>>

\* A __call__ that builds the matrix and the evaluator anew before using
\* them.
Call_synthesising_anew ==
  /\ pc = "constructed"
  /\ call = NoCall
  /\ \E cs \in CallSites(_identifiers) :
       /\ call' = [NoCall EXCEPT !.target = "direct", !.args = cs.args,
                                 !.kwargs = cs.kwargs]
       /\ result' = call_handler(_call_handler, cs.args, cs.kwargs)
  /\ synthesised' =
       [_init_matrix |-> synthesised._init_matrix + 1,
        _init_call_handler |-> synthesised._init_call_handler + 1]
  /\ UNCHANGED <<expr, pc, exc, raised_in, _identifiers, matrix,
                 _call_handler, wrapper, body_runs, outside_Combination>>

\* Combination.__call__(*args, **kwargs)
Call ==
  /\ pc = "constructed"
  /\ call = NoCall
  /\ \E cs \in CallSites(_identifiers) :
       /\ call' = [NoCall EXCEPT !.target = "direct", !.args = cs.args,
                                 !.kwargs = cs.kwargs]
       /\ result' = call_handler(_call_handler, cs.args, cs.kwargs)
  /\ UNCHANGED <<fields, wrapper, body_runs, outside_Combination>>

\* How the decorated function is reached: a free function directly, the
\* others through an instance or through the class.
Vias(binder) ==
  IF binder = "function" THEN {"none"} ELSE {"instance", "class"}

\* A method reached through the class is written with the instance as its
\* first argument (or, wrongly, without it).
Receivers(binder, via) ==
  IF binder = "method" /\ via = "class" THEN {<<Object>>, <<>>} ELSE {<<>>}

\* A call of the decorated function
CallWrapper ==
  /\ pc = "constructed"
  /\ call = NoCall
  /\ wrapper # NoWrapper
  /\ \E via \in Vias(wrapper.binder), cs \in CallSites(_identifiers) :
       \E receiver \in Receivers(wrapper.binder, via) :
         LET a == receiver \o cs.args
             r == combine_the_loads_wrapper(_call_handler, wrapper.binder,
                                            via, a, cs.kwargs)
         IN  /\ call' = [target |-> "wrapper", binder |-> wrapper.binder,
                         params |-> wrapper.params, via |-> via,
                         args |-> a, kwargs |-> cs.kwargs]
             /\ result' = [exc |-> r.exc, val |-> r.val]
             /\ body_runs' = body_runs + (IF r.wrapped_called THEN 1 ELSE 0)
  /\ UNCHANGED <<fields, wrapper, outside_Combination>>

\* The caller is done with what the call returned or raised; call and
\* result hold one call at a time.
Discard ==
  /\ call # NoCall
  /\ call' = NoCall
  /\ result' = NoResult
  /\ UNCHANGED <<fields, wrapper, body_runs, outside_Combination>>

Next == PostInit \/ Decorate \/ Call \/ CallWrapper \/ Discard

Spec == Init /\ [][Next]_vars

\* No Combination is in use.
NoCombination ==
  /\ expr = <<>>
  /\ pc = "start"
  /\ exc = "none"
  /\ raised_in = "none"
  /\ _identifiers = <<>>
  /\ matrix = <<>>
  /\ _call_handler = <<>>
  /\ wrapper = NoWrapper
  /\ call = NoCall
  /\ result = NoResult
  /\ body_runs = 0
  /\ synthesised = NotSynthesised

Combination_vars ==
  <<expr, pc, exc, raised_in, _identifiers, matrix, _call_handler, wrapper,
    call, result, body_runs, synthesised>>

\* ------------------------------------------- the algebra, object by object
\* Sequences over S of lengths lo..hi
RECURSIVE SeqsOfLen(_, _)
SeqsOfLen(S, n) ==
  IF n = 0 THEN {<<>>}
  ELSE {Append(q, x) : q \in SeqsOfLen(S, n - 1), x \in S}

SeqsBetween(S, lo, hi) == UNION {SeqsOfLen(S, n) : n \in lo..hi}

Terms == {_Factored(<<"D">>, One), _Factored(<<"L">>, PyFloat(5, 1))}

GroupsAnd == {_GroupAnd(q) : q \in SeqsBetween(Terms, 1, MaxMembers)}

GroupsOr == {_GroupOr(q) : q \in SeqsBetween(Terms, 2, MaxMembers)}

Groups == GroupsAnd \cup GroupsOr

\* What "&" makes of groups: a plain tuple of them.
Chains == {PyTuple(q) : q \in SeqsBetween(Groups, 1, MaxChain)}

Combinations == {Combination(method_strs[1]), Combination(docstring_strs[1])}

Numbers == {PyInt(2), PyFloat(5, 1)}

Operands == Terms \cup Groups \cup Chains \cup Combinations \cup Numbers

InitAlgebra ==
  /\ operand_self \in Operands
  /\ operand_other \in Terms \cup Groups \cup Combinations \cup Numbers
  /\ anded = NoObject
  /\ NoCombination
  /\ NoConcatenation
  /\ NoIterableDict

\* operand_self & operand_other
AndOperands ==
  /\ anded = NoObject
  /\ anded' = BinOp("&", operand_self, operand_other, "py")
  /\ UNCHANGED <<operand_self, operand_other, Combination_vars,
                 concatenation_vars, lookup_vars>>

NextAlgebra == AndOperands

SpecAlgebra == InitAlgebra /\ [][NextAlgebra]_vars

\* ----------------------------------------- row by row concatenation alone
\* arr0 and arr1 of the docstring
arr0 ==
  << <<PyInt(1), PyInt(2), PyInt(3)>>,
     <<PyInt(4), PyInt(5), PyInt(6)>>,
     <<PyInt(7), PyInt(8), PyInt(9)>> >>

arr1 == << <<PyInt(1), PyInt(2)>>, <<PyInt(3), PyInt(4)>> >>

\* the matrices of groups, as _init_matrix hands them over
Arrays == {arr0, arr1} \cup {Group_matrix(g) : g \in Groups}

ArrSeqs == SeqsBetween(Arrays, 0, MaxArrays)

InitConcatenation ==
  /\ arg_arr_seq \in ArrSeqs
  /\ concatenated = NoOutcome
  /\ NoCombination
  /\ NoAlgebra
  /\ NoIterableDict

\* _row_by_row_concatenation_of_array_seq(arr_seq)
Concatenate ==
  /\ concatenated = NoOutcome
  /\ concatenated' = _row_by_row_concatenation_of_array_seq(arg_arr_seq)
  /\ UNCHANGED <<arg_arr_seq, Combination_vars, algebra_vars, lookup_vars>>

NextConcatenation == Concatenate

SpecConcatenation == InitConcatenation /\ [][NextConcatenation]_vars

\* ------------------------------------------------------------- lookup.py
\* Iterables of keys: range and tuple are hashable, list is not.  Two ranges
\* are equal when they yield the same items.
range(start, stop) ==
  [k |-> "range", items |-> [i \in 1..(stop - start) |-> start + i - 1]]

list(items) == [k |-> "list", items |-> items]

hashable(x) == x.k # "list"

\* An iteration that stops before the last item.
iter_stops_early(x) == SubSeq(x.items, 1, Len(x.items) - 1)

iter(x) == x.items

\* A dict is the sequence of its items <<key, value>> in insertion order.
dict_index(d, key) ==
  IF \E i \in 1..Len(d) : d[i][1] = key
  THEN CHOOSE i \in 1..Len(d) : d[i][1] = key
  ELSE 0

dict__setitem__(d, key, v) ==
  IF dict_index(d, key) = 0 THEN Append(d, <<key, v>>)
  ELSE [d EXCEPT ![dict_index(d, key)] = <<key, v>>]

dict__getitem__(d, key) ==
  IF dict_index(d, key) = 0 THEN Raise("KeyError")
  ELSE Return(d[dict_index(d, key)][2])

\* dict(args): every element must have two items, the first one hashable.
RECURSIVE dict_update(_, _)
dict_update(d, args) ==
  IF args = <<>> THEN Return(d)
  ELSE IF Len(Head(args)) # 2 THEN Raise("ValueError")
  ELSE IF ~hashable(Head(args)[1]) THEN Raise("TypeError")
  ELSE dict_update(dict__setitem__(d, Head(args)[1], Head(args)[2]),
                   Tail(args))

dict(args) == dict_update(<<>>, args)

\* for k in keys: d[k] = v
RECURSIVE for_k_in_keys(_, _, _)
for_k_in_keys(d, keys, v) ==
  IF keys = <<>> THEN d
  ELSE for_k_in_keys(dict__setitem__(d, Head(keys), v), Tail(keys), v)

\* {k: v for keys, v in items for k in keys}
RECURSIVE dict_comprehension(_, _)
dict_comprehension(d, items) ==
  IF items = <<>> THEN d
  ELSE dict_comprehension(
         for_k_in_keys(d, iter(Head(items)[1]), Head(items)[2]),
         Tail(items))

IterableDict__init__root(args) == dict(args)

IterableDict__init__dict(self_root) == dict_comprehension(<<>>, self_root)

IterableDict__getitem__(self_dict, k) == dict__getitem__(self_dict, k)

\* Mapping.get: self[key], and the default on KeyError
Mapping_get(self_dict, key, default) ==
  IF IterableDict__getitem__(self_dict, key).exc = "KeyError"
  THEN Return(default)
  ELSE IterableDict__getitem__(self_dict, key)

\* Mapping.__contains__: self[key] raises KeyError or not
Mapping__contains__(self_dict, key) ==
  Return(IterableDict__getitem__(self_dict, key).exc # "KeyError")

IterableDict__len__(self_dict) == Return(Len(self_dict))

\* Mapping defines no __setitem__: "does not support item assignment".
IterableDict__setitem__(self_dict, key, v) == Raise("TypeError")

Keys == 0..MaxKey

Values == {"spam", "eggs"}

Ranges == {range(a, b) : a \in 0..(MaxKey + 1), b \in 0..(MaxKey + 1)}

Tuples == {PyTuple(q) : q \in SeqsBetween(Keys, 0, 2)}

Iterables == Ranges \cup Tuples \cup {list(<<1>>)}

Pairs == {<<keys, v>> : keys \in Iterables, v \in Values}

\* ([1], "spam"): a two-tuple given instead of a tuple of two-tuples
not_pairs == <<(<<1>>), (<<"s", "p", "a", "m">>)>>

DictArgs == SeqsBetween(Pairs, 0, MaxPairs) \cup {not_pairs}

\* keys looked up: those of the iterables and one on either side
LookupKeys == (0 - 1)..(MaxKey + 1)

constructed ==
  /\ lookup.op # "none"
  /\ ~(lookup.op = "__init__" /\ lookup.outcome.exc # "none")

InitLookup ==
  /\ dict_args \in DictArgs
  /\ root = <<>>
  /\ _dict = <<>>
  /\ lookup = NoLookup
  /\ NoCombination
  /\ NoAlgebra
  /\ NoConcatenation

outside_IterableDict == <<Combination_vars, algebra_vars, concatenation_vars>>

\* IterableDict(dict_args)
Construct ==
  /\ lookup.op = "none"
  /\ IF IterableDict__init__root(dict_args).exc # "none"
     THEN /\ lookup' = [NoLookup EXCEPT
                          !.op = "__init__",
                          !.outcome = Raise(IterableDict__init__root(dict_args).exc)]
          /\ UNCHANGED <<root, _dict>>
     ELSE /\ root' = IterableDict__init__root(dict_args).val
          /\ _dict' = IterableDict__init__dict(root')
          /\ lookup' = [NoLookup EXCEPT !.op = "__init__",
                                        !.outcome = Return(PyNone)]
  /\ UNCHANGED <<dict_args, outside_IterableDict>>

\* i_dict[k]
GetItem ==
  /\ constructed
  /\ \E k \in LookupKeys :
       lookup' = [NoLookup EXCEPT !.op = "__getitem__", !.key = k,
                    !.outcome = IterableDict__getitem__(_dict, k)]
  /\ UNCHANGED <<dict_args, root, _dict, outside_IterableDict>>

\* i_dict.get(k, default)
Get ==
  /\ constructed
  /\ \E k \in LookupKeys, default \in {PyNone, "ham"} :
       lookup' = [NoLookup EXCEPT !.op = "get", !.key = k,
                    !.default = default,
                    !.outcome = Mapping_get(_dict, k, default)]
  /\ UNCHANGED <<dict_args, root, _dict, outside_IterableDict>>

\* k in i_dict
Contains ==
  /\ constructed
  /\ \E k \in LookupKeys :
       lookup' = [NoLookup EXCEPT !.op = "__contains__", !.key = k,
                    !.outcome = Mapping__contains__(_dict, k)]
  /\ UNCHANGED <<dict_args, root, _dict, outside_IterableDict>>

\* len(i_dict)
LenOf ==
  /\ constructed
  /\ lookup' = [NoLookup EXCEPT !.op = "__len__",
                               !.outcome = IterableDict__len__(_dict)]
  /\ UNCHANGED <<dict_args, root, _dict, outside_IterableDict>>

\* i_dict[k] = v
SetItem ==
  /\ constructed
  /\ \E k \in LookupKeys, v \in Values \cup {PyNone} :
       lookup' = [NoLookup EXCEPT !.op = "__setitem__", !.key = k,
                    !.default = v,
                    !.outcome = IterableDict__setitem__(_dict, k, v)]
  /\ UNCHANGED <<dict_args, root, _dict, outside_IterableDict>>

NextLookup ==
  \/ Construct
  \/ GetItem
  \/ Get
  \/ Contains
  \/ LenOf
  \/ SetItem

SpecLookup == InitLookup /\ [][NextLookup]_vars

TypeOK ==
  /\ pc \in {"start", "constructed", "raised"}
  /\ body_runs \in Nat

\* ------------------------------------------------------------ properties
NumEq(a, b) == NumLeq(a, b) /\ NumLeq(b, a)

\* The call in progress gives every identifier exactly one value: the
\* first ones by position, the others by name.
one_value_each(args, kwargs) ==
  /\ Len(args) <= Len(_identifiers)
  /\ DOMAIN kwargs =
       {_identifiers[n] : n \in (Len(args) + 1)..Len(_identifiers)}

\* The value the call gives to the n-th identifier.
value_of(args, kwargs, n) ==
  IF n <= Len(args) THEN args[n] ELSE kwargs[_identifiers[n]]

all_numbers(args, kwargs) ==
  /\ \A i \in 1..Len(args) : args[i].kind = "num"
  /\ \A name \in DOMAIN kwargs : kwargs[name].kind = "num"

all_scalars(args, kwargs) ==
  /\ \A i \in 1..Len(args) : args[i].shape = <<>>
  /\ \A name \in DOMAIN kwargs : kwargs[name].shape = <<>>

\* every array among the values has length ArrLen, and there is one
arrays_of_ArrLen(args, kwargs) ==
  /\ \A i \in 1..Len(args) : args[i].shape \in {<<>>, <<ArrLen>>}
  /\ \A name \in DOMAIN kwargs : kwargs[name].shape \in {<<>>, <<ArrLen>>}
  /\ ~all_scalars(args, kwargs)

\* sum over the first n columns of matrix[s][c] * (k-th element of the
\* value of the c-th identifier)
RECURSIVE contraction(_, _, _, _, _)
contraction(s, args, kwargs, k, n) ==
  IF n = 0 THEN Zero
  ELSE NumAdd(contraction(s, args, kwargs, k, n - 1),
              NumMul(matrix[s][n], elem(value_of(args, kwargs, n), k)))

\* Columns that stand for an identifier.
Columns(s) == Min2(Len(matrix[s]), Len(_identifiers))

\* The positional values a call of the decorated function passes on, the
\* instance written first in a call of a method through the class left out.
passed(c) ==
  IF c.binder = "method" /\ c.via = "class" THEN Tail(c.args) ELSE c.args

\* A call of the decorated function that has a receiver where one is due.
wrapper_call ==
  /\ call.target = "wrapper"
  /\ ~(call.binder = "method" /\ call.via = "class" /\ call.args = <<>>)

\* The groups of a disjunctive group or of a chain, in order.
groups_of(v) == IF v.k = "tuple" THEN v.items ELSE <<v>>

C1_identifiers_once_in_first_appearance_order ==
  (pc # "start" /\ raised_in # "_get_identifiers") =>
    LET names  == SelectSeq(tokenize(expr), LAMBDA t : t.k = "NAME")
        first  == {i \in 1..Len(names) :
                     \A j \in 1..(i - 1) : names[j].s # names[i].s}
        nth(k) == CHOOSE i \in first : Cardinality({j \in first : j <= i}) = k
    IN  _identifiers = [k \in 1..Cardinality(first) |-> names[nth(k)].s]

\* C2: a constructed Combination's matrix has r1 * ... * rk rows (ri = 1 for
\* a conjunctive group, the member count for a disjunctive group) and one
\* column per extracted identifier.
C2_matrix_rows_and_columns ==
  pc = "constructed" =>
    LET groups == group_tup(eval(expr, namespace(_identifiers))).val
        r == [i \in 1..Len(groups) |->
                IF groups[i].k = "or" THEN Len(groups[i].items) ELSE 1]
    IN  /\ Len(matrix) = prod(r)
        /\ \A s \in 1..Len(matrix) : Len(matrix[s]) = Len(_identifiers)

\* C3: for scalar load values of any sign, the largest of the returned rows
\* equals the expression read with "&" as sum, "|" as maximum over the
\* alternatives and "*" as scaling.
C3_max_of_rows_is_governing_value ==
  (/\ pc = "constructed"
   /\ call.target = "direct"
   /\ one_value_each(call.args, call.kwargs)
   /\ all_numbers(call.args, call.kwargs)
   /\ all_scalars(call.args, call.kwargs)) =>
    LET ns == [name \in {_identifiers[n] : n \in 1..Len(_identifiers)} |->
                 value_of(call.args, call.kwargs,
                          Index(_identifiers, name)).data[1]]
        expected == expression(tokenize(lstrip(expr)), ns, "max").v
    IN  expected.k = "num" =>
          /\ result.exc = "none"
          /\ \E s \in 1..Len(result.val.data) :
               NumEq(result.val.data[s], expected)
          /\ \A s \in 1..Len(result.val.data) :
               NumLeq(result.val.data[s], expected)

\* C4: a call with one scalar value per identifier, by position or by name,
\* returns for every scenario row s the sum over n of matrix[s][n] * value
\* of the n-th identifier; the docstring's combination called with
\* (1, 2, 3, 4, 5) returns [5.5, 6.0, 6.5].
C4_result_is_matrix_times_values ==
  (/\ pc = "constructed"
   /\ call.target = "direct"
   /\ one_value_each(call.args, call.kwargs)
   /\ all_numbers(call.args, call.kwargs)
   /\ all_scalars(call.args, call.kwargs)) =>
    /\ result.exc = "none"
    /\ result.val.shape = <<Len(matrix)>>
    /\ \A s \in 1..Len(matrix) :
         NumEq(result.val.data[s],
               contraction(s, call.args, call.kwargs, 1, Columns(s)))
    /\ (expr = docstring_strs[1] /\ call.args = ramp(5)) =>
         result.val.data = <<PyFloat(55, 1), PyFloat(60, 1), PyFloat(65, 1)>>

C4_docstring_example_called ==
  /\ pc = "constructed"
  /\ call.target = "direct"
  /\ expr = docstring_strs[1]
  /\ call.args = ramp(5)
  /\ result.exc = "none"
  /\ Len(result.val.data) = 3

C6_wrappers_agree_with_direct_call ==
  /\ body_runs = 0
  /\ wrapper_call =>
       /\ result = call_handler(_call_handler, passed(call), call.kwargs)
       /\ (/\ expr = method_strs[1]
           /\ passed(call) = ones(2)
           /\ call.kwargs = NoKwargs) =>
            /\ result.exc = "none"
            /\ result.val.data = <<PyFloat(26, 1)>>

C6_method_called_through_class ==
  /\ call.target = "wrapper"
  /\ call.binder = "method"
  /\ call.via = "class"
  /\ expr = method_strs[1]
  /\ call.args = <<Object>> \o ones(2)
  /\ result.exc = "none"

\* C7: when the decorated function declares a parameter that is no
\* identifier, a call that gives a value to every declared parameter
\* succeeds and returns what the call without the extra values returns.
C7_extra_parameters_accepted_and_ignored ==
  (/\ wrapper_call
   /\ Names(call.params) # Names(_identifiers)
   /\ all_numbers(passed(call), call.kwargs)
   /\ bind(call.params, passed(call), call.kwargs).exc = "none") =>
    LET given == bind(call.params, passed(call), call.kwargs).val
    IN  result = call_handler(_call_handler, <<>>,
                              [name \in Names(_identifiers) |-> given[name]])

\* C8: a positional argument is bound to the identifier named by the
\* declared parameter at its position.
C8_positional_bound_by_declared_parameter ==
  (/\ wrapper_call
   /\ Names(call.params) = Names(_identifiers)
   /\ all_numbers(passed(call), call.kwargs)
   /\ bind(call.params, passed(call), call.kwargs).exc = "none") =>
    result = call_handler(_call_handler, <<>>,
                          bind(call.params, passed(call), call.kwargs).val)

uses_plus(e) == \E i \in 1..Len(e) : e[i] = "+"

\* "(" less ")" among the first i characters
depth(e, i) ==
  Cardinality({j \in 1..i : e[j] = "("})
    - Cardinality({j \in 1..i : e[j] = ")"})

unbalanced(e) ==
  depth(e, Len(e)) # 0 \/ \E i \in 1..Len(e) : depth(e, i) < 0

\* a "*" that does not follow a number
non_numeric_left_operand(e) ==
  LET t == tokenize(e)
  IN  \E i \in 1..Len(t) :
        /\ t[i].k = "OP"
        /\ t[i].s = "*"
        /\ (i = 1 \/ t[i - 1].k # "NUMBER")

dangling_operator(e) ==
  strip(e) # <<>> /\ strip(e)[Len(strip(e))] \in {"&", "|"}

C10_only_expression_errors_escape ==
  pc = "raised" => exc = LoadCombinationExpressionError

\* The keys an iterable of keys yields
keys_of(x) == {x.items[i] : i \in 1..Len(x.items)}

pairwise_disjoint(args) ==
  /\ \A i \in 1..Len(args) : Len(args[i]) = 2 /\ hashable(args[i][1])
  /\ \A i, j \in 1..Len(args) :
       i # j => keys_of(args[i][1]) \cap keys_of(args[j][1]) = {}

\* The pairs whose iterable yields k
pairs_with(args, k) == {i \in 1..Len(args) : k \in keys_of(args[i][1])}

\* The last pair given with the same iterable of keys as pair i
last_with_keys_of(args, i) ==
  CHOOSE j \in i..Len(args) :
    /\ args[j][1] = args[i][1]
    /\ \A n \in (j + 1)..Len(args) : args[n][1] # args[i][1]

\* C12: for an IterableDict built from pairs whose iterables of keys are
\* pairwise disjoint, at any time after its construction: root is
\* dict(args) (one item per iterable given, with the value given for it
\* last); every key of an iterable looks up the value paired with that
\* iterable; a key of no iterable is absent, and get returns the default
\* for it; an item assignment raises TypeError and leaves all of this as
\* it was.
C12_lookup_by_each_key_of_the_iterables ==
  (constructed /\ pairwise_disjoint(dict_args)) =>
    /\ \A i \in 1..Len(dict_args) :
         dict__getitem__(root, dict_args[i][1]) =
           Return(dict_args[last_with_keys_of(dict_args, i)][2])
    /\ \A n \in 1..Len(root) :
         /\ \E i \in 1..Len(dict_args) : dict_args[i][1] = root[n][1]
         /\ \A m \in 1..Len(root) : root[m][1] = root[n][1] => m = n
    /\ \A k \in LookupKeys :
         /\ \A i \in pairs_with(dict_args, k) :
              /\ IterableDict__getitem__(_dict, k) = Return(dict_args[i][2])
              /\ Mapping_get(_dict, k, PyNone) = Return(dict_args[i][2])
         /\ pairs_with(dict_args, k) = {} =>
              /\ IterableDict__getitem__(_dict, k) = Raise("KeyError")
              /\ Mapping_get(_dict, k, PyNone) = Return(PyNone)
    /\ (lookup.op \in {"__getitem__", "get"} =>
         \A i \in pairs_with(dict_args, lookup.key) :
           lookup.outcome = Return(dict_args[i][2]))
    /\ (lookup.op = "get" /\ pairs_with(dict_args, lookup.key) = {} =>
         lookup.outcome = Return(lookup.default))
    /\ (lookup.op = "__contains__" =>
         lookup.outcome.val = (pairs_with(dict_args, lookup.key) # {}))
    /\ (lookup.op = "__setitem__" => lookup.outcome = Raise("TypeError"))

\* The second of two disjoint ranges with different values is looked up
\* after an item assignment was tried.
C12_key_of_second_range_looked_up ==
  /\ dict_args = <<(<<range(0, 2), "spam">>), (<<range(2, 3), "eggs">>)>>
  /\ constructed
  /\ lookup.op = "__getitem__"
  /\ lookup.key = 2
  /\ lookup.outcome = Return("eggs")

\* r_{i+1} * ... * r_k: the rows of the arrays after the i-th
RECURSIVE rows_after(_, _)
rows_after(arr_seq, i) ==
  IF i >= Len(arr_seq) THEN 1
  ELSE Len(arr_seq[i + 1]) * rows_after(arr_seq, i + 1)

\* r_1 * ... * r_{i-1}: the rows of the arrays before the i-th
RECURSIVE rows_before(_, _)
rows_before(arr_seq, i) ==
  IF i <= 1 THEN 1
  ELSE Len(arr_seq[i - 1]) * rows_before(arr_seq, i - 1)

\* columns of the arrays before the i-th
RECURSIVE columns_before(_, _)
columns_before(arr_seq, i) ==
  IF i <= 1 THEN 0
  ELSE Len(arr_seq[i - 1][1]) + columns_before(arr_seq, i - 1)

\* the part of row s of the result that comes from the i-th array
part(out, arr_seq, i, s) ==
  SubSeq(out[s], columns_before(arr_seq, i) + 1,
         columns_before(arr_seq, i) + Len(arr_seq[i][1]))

\* C13: the rows of the result are in nested-loop order, later arrays
\* varying fastest: there are r1 * ... * rk rows, and row s (from 0) takes
\* from the i-th array its row floor(s / (r_{i+1} * ... * rk)) mod r_i.
C13_rows_in_nested_loop_order ==
  concatenated.exc = "none" =>
    /\ Len(concatenated.val) = rows_before(arg_arr_seq, Len(arg_arr_seq) + 1)
    /\ \A s \in 0..(Len(concatenated.val) - 1) :
         /\ Len(concatenated.val[s + 1]) =
              columns_before(arg_arr_seq, Len(arg_arr_seq) + 1)
         /\ \A i \in 1..Len(arg_arr_seq) :
              part(concatenated.val, arg_arr_seq, i, s + 1) =
                arg_arr_seq[i][((s \div rows_after(arg_arr_seq, i))
                                 % Len(arg_arr_seq[i])) + 1]

\* The example of the docstring: rows 1-1, 1-2, 2-1, 2-2, 3-1, 3-2.
C13_docstring_example_concatenated ==
  /\ arg_arr_seq = <<arr0, arr1>>
  /\ concatenated.exc = "none"
  /\ concatenated.val =
       [s \in 1..6 |-> arr0[((s - 1) \div 2) + 1] \o arr1[((s - 1) % 2) + 1]]

\* the columns of the result that come from the i-th array
block(out, arr_seq, i) ==
  [s \in 1..Len(out) |-> part(out, arr_seq, i, s)]

\* arr with each of its rows `times` times in a row, and all of that
\* `copies` times over
repeated_then_tiled(arr, times, copies) ==
  [p \in 1..(Len(arr) * times * copies) |->
     arr[(((p - 1) % (Len(arr) * times)) \div times) + 1]]

\* C14 as stated: with M rows in all, the block of the i-th array is each
\* of its rows M / (rows_i * suffix_product_i) times in a row, tiled
\* suffix_product_i times.
C14_repeated_by_leading_tiled_by_suffix ==
  concatenated.exc = "none" =>
    \A i \in 1..Len(arg_arr_seq) :
      block(concatenated.val, arg_arr_seq, i) =
        repeated_then_tiled(
          arg_arr_seq[i],
          Len(concatenated.val)
            \div (Len(arg_arr_seq[i]) * rows_after(arg_arr_seq, i)),
          rows_after(arg_arr_seq, i))

\* C14 amended: the block of the i-th array is each of its rows
\* suffix_product_i times in a row, tiled M / (rows_i * suffix_product_i)
\* times.
C14_repeated_by_suffix_tiled_by_leading ==
  concatenated.exc = "none" =>
    \A i \in 1..Len(arg_arr_seq) :
      block(concatenated.val, arg_arr_seq, i) =
        repeated_then_tiled(
          arg_arr_seq[i],
          rows_after(arg_arr_seq, i),
          Len(concatenated.val)
            \div (Len(arg_arr_seq[i]) * rows_after(arg_arr_seq, i)))

\* Three arrays of more than one row each: the middle one is both
\* repeated and tiled.
C14_middle_array_repeated_and_tiled ==
  /\ arg_arr_seq = <<arr1, arr0, arr1>>
  /\ concatenated.exc = "none"
  /\ Len(concatenated.val) = 12
  /\ block(concatenated.val, arg_arr_seq, 2) =
       <<arr0[1], arr0[1], arr0[2], arr0[2], arr0[3], arr0[3],
         arr0[1], arr0[1], arr0[2], arr0[2], arr0[3], arr0[3]>>

\* C15: the matrix and the evaluator of a Combination are synthesised
\* exactly once; across direct calls and calls of its decorated wrappers,
\* raising ones included, the identifier tuple, the matrix and the
\* evaluator stay as __post_init__ made them and neither is synthesised
\* again, and what a call gives depends on its arguments alone.
C15_synthesised_once_and_left_alone ==
  /\ [](pc = "constructed" =>
         /\ synthesised = [_init_matrix |-> 1, _init_call_handler |-> 1]
         /\ (call # NoCall /\ call.target = "direct" =>
              result = call_handler(_call_handler, call.args, call.kwargs))
         /\ (call # NoCall /\ call.target = "wrapper" =>
              /\ result.exc =
                   combine_the_loads_wrapper(
                     _call_handler, call.binder, call.via,
                     call.args, call.kwargs).exc
              /\ result.val =
                   combine_the_loads_wrapper(
                     _call_handler, call.binder, call.via,
                     call.args, call.kwargs).val))
  /\ [][pc = "constructed" =>
          UNCHANGED <<_identifiers, matrix, _call_handler, synthesised>>]_vars

\* A call through a decorated method raised, on a Combination that was
\* decorated and is still as constructed.
C15_wrapper_call_raised ==
  /\ pc = "constructed"
  /\ wrapper # NoWrapper
  /\ call # NoCall
  /\ call.target = "wrapper"
  /\ result.exc # "none"
  /\ matrix # <<>>
  /\ synthesised = [_init_matrix |-> 1, _init_call_handler |-> 1]

\* The load types of the members of a group
load_types_of(group) ==
  {group.items[n].load_type : n \in 1..Len(group.items)}

\* gt is the tuple of groups the string evaluates to: two of its groups
\* have a load type in common.
shared_by_two_groups(gt) ==
  /\ gt.exc = "none"
  /\ \A i \in 1..Len(gt.val) : gt.val[i].k \in {"or", "and"}
  /\ \E i, j \in 1..Len(gt.val) :
       i < j /\ load_types_of(gt.val[i]) \cap load_types_of(gt.val[j]) # {}

\* The members of all groups of gt, counted with repeats
RECURSIVE occurrences(_)
occurrences(groups) ==
  IF groups = <<>> THEN 0
  ELSE Len(Head(groups).items) + occurrences(Tail(groups))

\* C16: a string that names the same identifier in two different groups
\* is accepted: the Combination is constructed, and its matrix has one
\* column for every occurrence of an identifier in a group.
C16_repeated_identifier_accepted ==
  (/\ pc # "start"
   /\ raised_in # "_get_identifiers"
   /\ shared_by_two_groups(
        group_tup(eval(expr, namespace(_identifiers))))) =>
    /\ pc = "constructed"
    /\ \A s \in 1..Len(matrix) :
         Len(matrix[s]) =
           occurrences(group_tup(eval(expr, namespace(_identifiers))).val)

====
